---- MODULE Spec2Model ----
(***************************************************************************)
(* Client-side state of the storefront: the persisted Zustand cart store   *)
(* (store/cartStore.ts) and the quantity control that drives it, the query *)
(* and mutation hooks (lib/hooks), the Apollo link chain (lib/apollo) and  *)
(* the Recoil wishlist.                                                    *)
(***************************************************************************)
EXTENDS FiniteSets, Integers, Sequences, TLC

VARIABLES
    items,          \* CartStore.items: the cart lines, in insertion order
    cartStorage,    \* localStorage['cart-storage']: <<>> when absent, <<doc>> when set
    last,           \* the call that produced the current state
    prevItems,      \* CartStore.items before that call
    onlyAdds,       \* TRUE while every call so far was addItem
    validAdds,      \* TRUE while every addItem so far passed quantity >= 1
    token,          \* what getAccessToken() returns: <<>> for null, <<t>> for a token
    hook,           \* the mounted query hook and its arguments
    fetchStatus,    \* the hook's query: "idle" | "fetching"
    status,         \* the hook's result: "pending" | "success" | "error"
    queryCalls,     \* the request of every apolloClient.query call, in order
    retry,          \* QueryClient defaultOptions.queries.retry: retries after a failure
    failureCount,   \* failures of the hook's current query
    queryError,     \* the hook's error: <<>> for null, <<message>> when set
    mutation,       \* useCreateOrder's mutation: status, input, response, data, error
    mutateCalls,    \* the variables of every apolloClient.mutate call, in order
    operations,     \* the GraphQL operations sent through the link chain, in order
    lastLink,       \* the link event that produced the current state
    wishlist,       \* wishlistState: the saved product ids
    lastWish,       \* the wishlist event that produced the current state
    session,        \* AuthSession in storage: access token, refresh token, user, expiry
    refreshRequest, \* the REST refresh call: "idle" | "pending"
    now,            \* the clock isTokenExpired compares the expiry with
    issued,         \* access tokens the auth service has issued so far
    rendered,       \* the items the components saw at their last render
    dispatched,     \* the store calls made by event handlers since that render
    otherItems,     \* CartStore.items of a second tab of the same browser
    kept,           \* ids added in either tab and not removed since
    typePolicy,     \* which documented products field policy the cache was created with
    cache,          \* Query.products in the InMemoryCache, per (search, category) key
    prevCache,      \* the cache before the last write
    lastWrite,      \* the last result written to Query.products
    inOrder,        \* per key: n when the writes since the last page 1 were pages 1..n in order, else 0
    value,          \* the value useDebounce was last rendered with
    debouncedValue, \* useDebounce's state, the value it returns
    timers,         \* the pending setTimeout handlers: captured value and ticks left
    sinceChange,    \* ticks since value last changed, counted up to the delay
    changes,        \* how often value has changed
    fired,          \* how often a timer has called setDebouncedValue
    inThrottle,     \* useThrottle's inThrottle.current
    window,         \* the pending setTimeout of the window: <<>> or <<ticks left>>
    throttled,      \* how often the wrapped function was called
    runs,           \* the arguments of every run of callback, in order
    sinceRun,       \* ticks since callback last ran, counted up to the limit
    lastThrottle,   \* the throttle event that produced the current state
    cartData,       \* queryClient data of ['cart']: <<>> for undefined, <<list>> when set
    serverCart,     \* the cart the /api/cart backend holds
    pending,        \* the add-to-cart mutations in flight: id, item, context.previousCart
    refetching,     \* TRUE while a fetch of ['cart'] is in flight
    started,        \* how many mutations were started
    lastOpt,        \* the mutation event that produced the current state
    authStore,      \* useAuthStore's state: user, token, isAuthenticated
    authStorage,    \* localStorage['auth-storage']: <<>> when absent, <<doc>> when set
    prevAuthStore,  \* useAuthStore's state before the last call
    lastAuth,       \* the auth store call that produced the current state
    contextItems    \* CartProvider's items state

cartVars == <<items, cartStorage, last, prevItems, onlyAdds, validAdds>>
orderVars == <<token, hook, fetchStatus, status, queryCalls>>
productVars == <<retry, failureCount, queryError>>
mutationVars == <<mutation, mutateCalls>>
linkVars == <<operations, lastLink>>
wishVars == <<wishlist, lastWish>>
authVars == <<session, refreshRequest, now, issued>>
batchVars == <<rendered, dispatched>>
tabVars == <<otherItems, kept>>
pageVars == <<typePolicy, cache, prevCache, lastWrite, inOrder>>
debounceVars == <<value, debouncedValue, timers, sinceChange, changes, fired>>
throttleVars == <<inThrottle, window, throttled, runs, sinceRun, lastThrottle>>
optimisticVars == <<cartData, serverCart, pending, refetching, started, lastOpt>>
authStoreVars == <<authStore, authStorage, prevAuthStore, lastAuth>>
contextVars == <<contextItems>>
vars == <<cartVars, orderVars, productVars, mutationVars, linkVars, wishVars, authVars, batchVars, tabVars, pageVars, debounceVars, throttleVars, optimisticVars, authStoreVars, contextVars>>

\* what the actions of one store or hook leave alone
cartRest == <<orderVars, productVars, mutationVars, linkVars, wishVars, authVars, batchVars, tabVars, pageVars, debounceVars, throttleVars, optimisticVars, authStoreVars, contextVars>>
orderRest == <<cartVars, productVars, mutationVars, linkVars, wishVars, authVars, batchVars, tabVars, pageVars, debounceVars, throttleVars, optimisticVars, authStoreVars, contextVars>>
productRest == <<cartVars, mutationVars, linkVars, wishVars, authVars, batchVars, tabVars, pageVars, debounceVars, throttleVars, optimisticVars, authStoreVars, contextVars>>
mutationRest == <<cartVars, orderVars, productVars, linkVars, wishVars, authVars, batchVars, tabVars, pageVars, debounceVars, throttleVars, optimisticVars, authStoreVars, contextVars>>
linkRest == <<hook, fetchStatus, status, queryCalls, cartVars, productVars, mutationVars, wishVars, authVars, batchVars, tabVars, pageVars, debounceVars, throttleVars, optimisticVars, authStoreVars, contextVars>>
wishRest == <<cartVars, orderVars, productVars, mutationVars, linkVars, authVars, batchVars, tabVars, pageVars, debounceVars, throttleVars, optimisticVars, authStoreVars, contextVars>>
authRest == <<cartVars, orderVars, productVars, mutationVars, linkVars, wishVars, batchVars, tabVars, pageVars, debounceVars, throttleVars, optimisticVars, authStoreVars, contextVars>>
batchRest == <<orderVars, productVars, mutationVars, linkVars, wishVars, authVars, tabVars, pageVars, debounceVars, throttleVars, optimisticVars, authStoreVars, contextVars>>
tabRest == <<orderVars, productVars, mutationVars, linkVars, wishVars, authVars, batchVars, pageVars, debounceVars, throttleVars, optimisticVars, authStoreVars, contextVars>>
pageRest == <<cartVars, orderVars, productVars, mutationVars, linkVars, wishVars, authVars, batchVars, tabVars, debounceVars, throttleVars, optimisticVars, authStoreVars, contextVars>>
debounceRest == <<cartVars, orderVars, productVars, mutationVars, linkVars, wishVars, authVars, batchVars, tabVars, pageVars, throttleVars, optimisticVars, authStoreVars, contextVars>>
throttleRest == <<cartVars, orderVars, productVars, mutationVars, linkVars, wishVars, authVars, batchVars, tabVars, pageVars, debounceVars, optimisticVars, authStoreVars, contextVars>>
optimisticRest == <<cartVars, orderVars, productVars, mutationVars, linkVars, wishVars, authVars, batchVars, tabVars, pageVars, debounceVars, throttleVars, authStoreVars, contextVars>>
authStoreRest == <<cartVars, orderVars, productVars, mutationVars, linkVars, wishVars, authVars, batchVars, tabVars, pageVars, debounceVars, throttleVars, optimisticVars, contextVars>>
contextRest == <<orderVars, productVars, mutationVars, linkVars, wishVars, authVars, batchVars, tabVars, pageVars, debounceVars, throttleVars, optimisticVars, authStoreVars>>

----
\* Bounds of the model.

\* largest quantity a cart line may reach before addItem / increase stop firing
MaxQty == 3
\* largest quantity passed to addItem / updateQuantity
MaxArg == 2
\* longest log of apolloClient.query calls
MaxCalls == 2
\* largest retry setting of the QueryClient
MaxRetry == 1
\* longest log of operations sent through the link chain
MaxOps == 3
\* last tick of the clock
MaxTime == 4
\* access tokens the auth service issues at most
MaxTokens == 3
\* last page of a product listing
MaxPage == 3
\* most changes of the debounced input
MaxChanges == 3
\* most calls of the throttled function
MaxThrottled == 4
\* most add-to-cart mutations
MaxMutations == 3
\* longest cached products list
MaxCached == 3

\* addItem and updateQuantity accept any number: -1 and 0 stand for the
\* quantities below 1
MinQty == 0 - 1

QtyArgs == MinQty..MaxArg

----
\* Products offered to the cart.

Ids == {"1", "2", "3"}

Offers ==
    { [id |-> "1", name |-> "A",  price |-> 10, image |-> "/a.jpg"],
      [id |-> "2", name |-> "B",  price |-> 15, image |-> "/b.jpg"],
      [id |-> "3", name |-> "C",  price |-> 20, image |-> "/c.jpg"] }

\* interface CartItem
CartItem(o, q) ==
    [id |-> o.id, name |-> o.name, price |-> o.price, quantity |-> q, image |-> o.image]

ItemInputs == { CartItem(o, q) : o \in Offers, q \in QtyArgs }

\* Product.stock, the max of the cart line's QuantitySelector
stock == [i \in Ids |-> 2]

NoItem == [id |-> "", name |-> "", price |-> 0, quantity |-> 0, image |-> ""]

----
\* Array helpers used by the store.

\* state.items.find((i) => i.id === id) is defined
HasId(state, id) == \E k \in 1..Len(state) : state[k].id = id

----
\* The cart store's reducers (the functions handed to set) and getters.

addItem_append(state, item) == state \o <<item>>

addItem_prepend(state, item) ==
    IF HasId(state, item.id)
    THEN [k \in 1..Len(state) |->
            IF state[k].id = item.id
            THEN [state[k] EXCEPT !.quantity = @ + item.quantity]
            ELSE state[k]]
    ELSE <<item>> \o state

addItem_firstOnly(state, item) ==
    IF state # <<>> /\ state[1].id = item.id
    THEN [k \in 1..Len(state) |->
            IF state[k].id = item.id
            THEN [state[k] EXCEPT !.quantity = @ + item.quantity]
            ELSE state[k]]
    ELSE state \o <<item>>

addItem_overwrite(state, item) ==
    IF HasId(state, item.id)
    THEN [k \in 1..Len(state) |->
            IF state[k].id = item.id
            THEN [item EXCEPT !.quantity = state[k].quantity + item.quantity]
            ELSE state[k]]
    ELSE state \o <<item>>

addItem(state, item) ==
    IF HasId(state, item.id)
    THEN [k \in 1..Len(state) |->
            IF state[k].id = item.id
            THEN [state[k] EXCEPT !.quantity = @ + item.quantity]
            ELSE state[k]]
    ELSE state \o <<item>>

removeItem_only(state, id) ==
    SelectSeq(state, LAMBDA i : i.id = id)

removeItem(state, id) ==
    SelectSeq(state, LAMBDA i : i.id # id)

updateQuantity_noRemove(state, id, quantity) ==
    [k \in 1..Len(state) |->
        IF state[k].id = id THEN [state[k] EXCEPT !.quantity = quantity]
        ELSE state[k]]

updateQuantity_zero(state, id, quantity) ==
    IF quantity >= 0
    THEN [k \in 1..Len(state) |->
            IF state[k].id = id THEN [state[k] EXCEPT !.quantity = quantity]
            ELSE state[k]]
    ELSE SelectSeq(state, LAMBDA i : i.id # id)

updateQuantity_add(state, id, quantity) ==
    IF quantity > 0
    THEN [k \in 1..Len(state) |->
            IF state[k].id = id THEN [state[k] EXCEPT !.quantity = @ + quantity]
            ELSE state[k]]
    ELSE SelectSeq(state, LAMBDA i : i.id # id)

updateQuantity_nonZero(state, id, quantity) ==
    IF quantity # 0
    THEN [k \in 1..Len(state) |->
            IF state[k].id = id THEN [state[k] EXCEPT !.quantity = quantity]
            ELSE state[k]]
    ELSE SelectSeq(state, LAMBDA i : i.id # id)

updateQuantity(state, id, quantity) ==
    IF quantity > 0
    THEN [k \in 1..Len(state) |->
            IF state[k].id = id THEN [state[k] EXCEPT !.quantity = quantity]
            ELSE state[k]]
    ELSE SelectSeq(state, LAMBDA i : i.id # id)

clearCart_keep(state) == state

clearCart(state) == <<>>

\* items.reduce((total, item) => total + item.quantity, 0), from line k on
RECURSIVE ReduceQuantity(_, _, _)
ReduceQuantity(state, k, total) ==
    IF k > Len(state) THEN total
    ELSE ReduceQuantity(state, k + 1, total + state[k].quantity)

\* items.reduce((total, item) => total + item.price * item.quantity, 0), from line k on
RECURSIVE ReducePrice(_, _, _)
ReducePrice(state, k, total) ==
    IF k > Len(state) THEN total
    ELSE ReducePrice(state, k + 1, total + state[k].price * state[k].quantity)

getTotalItems(state) == ReduceQuantity(state, 1, 0)

\* the same reduce without the quantity factor
RECURSIVE ReduceUnitPrice(_, _, _)
ReduceUnitPrice(state, k, total) ==
    IF k > Len(state) THEN total
    ELSE ReduceUnitPrice(state, k + 1, total + state[k].price)

getTotalPrice_unit(state) == ReduceUnitPrice(state, 1, 0)

getTotalPrice(state) == ReducePrice(state, 1, 0)

----
\* The persist middleware, { name: 'cart-storage' }: after every set the
\* partial state is written as JSON text to localStorage; on load the store
\* is created with its initial state and merged with the parsed text.

\* one "key": value member of a JSON object
Member(k, t, s, n) == [k |-> k, t |-> t, s |-> s, n |-> n]

\* JSON.stringify of one CartItem
StringifyItem(i) ==
    << Member("id", "string", i.id, 0),
       Member("name", "string", i.name, 0),
       Member("price", "number", "", i.price),
       Member("quantity", "number", "", i.quantity),
       Member("image", "string", i.image, 0) >>

\* JSON.stringify({ state: { items }, version: 0 })
Stringify(state) ==
    [state |-> [items |-> [k \in 1..Len(state) |-> StringifyItem(state[k])]],
     version |-> 0]

\* the value of member k of a parsed object
StringOf(obj, k) == (CHOOSE m \in {obj[j] : j \in 1..Len(obj)} : m.k = k).s
NumberOf(obj, k) == (CHOOSE m \in {obj[j] : j \in 1..Len(obj)} : m.k = k).n

\* JSON.parse of one CartItem
ParseItem(obj) ==
    [id |-> StringOf(obj, "id"), name |-> StringOf(obj, "name"),
     price |-> NumberOf(obj, "price"), quantity |-> NumberOf(obj, "quantity"),
     image |-> StringOf(obj, "image")]

\* persist's setItem, called after set
setItem_stale(old, new) == <<Stringify(old)>>

setItem(old, new) == <<Stringify(new)>>

\* persist's hydrate: getItem, JSON.parse, merge over the initial state
hydrate(stored) ==
    IF stored = <<>> THEN <<>>
    ELSE LET arr == stored[1].state.items
         IN  [k \in 1..Len(arr) |-> ParseItem(arr[k])]

----
\* Quantities stay inside the model's window.
InWindow(state) == \A k \in 1..Len(state) : state[k].quantity \in MinQty..MaxQty

Call(op, id, quantity, item, via) ==
    [op |-> op, id |-> id, quantity |-> quantity, item |-> item, via |-> via]

\* set(fn): replace items by fn(state) and persist
SetCart(new, call) ==
    /\ InWindow(new)
    /\ items' = new
    /\ cartStorage' = setItem(items, new)
    /\ prevItems' = items
    /\ last' = call
    /\ onlyAdds' = (onlyAdds /\ call.op = "addItem")
    /\ validAdds' = (validAdds /\ (call.op = "addItem" => call.quantity >= 1))

\* set(fn) in a page that holds nothing but the cart store
Set(new, call) ==
    /\ SetCart(new, call)
    /\ UNCHANGED cartRest

CartInit ==
    /\ items = <<>>
    /\ cartStorage = <<>>
    /\ prevItems = <<>>
    /\ last = Call("init", "", 0, NoItem, "")
    /\ onlyAdds = TRUE
    /\ validAdds = TRUE

OrdersIdle ==
    /\ token = <<>>
    /\ hook = [name |-> "none", page |-> 0, limit |-> 0, customerId |-> "", id |-> ""]
    /\ fetchStatus = "idle"
    /\ status = "pending"
    /\ queryCalls = <<>>

\* useCartStore.getState().addItem(item)
AddItem ==
    \E item \in ItemInputs :
        Set(addItem(items, item), Call("addItem", item.id, item.quantity, item, "store"))

\* useCartStore.getState().removeItem(id)
RemoveItem ==
    \E id \in Ids :
        Set(removeItem(items, id), Call("removeItem", id, 0, NoItem, "store"))

\* useCartStore.getState().updateQuantity(id, quantity)
UpdateQuantity ==
    \E id \in Ids, quantity \in QtyArgs :
        Set(updateQuantity(items, id, quantity),
            Call("updateQuantity", id, quantity, NoItem, "store"))

\* useCartStore.getState().clearCart()
ClearCart ==
    Set(clearCart(items), Call("clearCart", "", 0, NoItem, "store"))

\* QuantityControl's minus button on a cart line: onChange(quantity - 1)
Decrease ==
    \E k \in 1..Len(items) :
        Set(updateQuantity(items, items[k].id, items[k].quantity - 1),
            Call("updateQuantity", items[k].id, items[k].quantity - 1, NoItem, "minus"))

\* QuantityControl's plus button on a cart line: onChange(quantity + 1)
Increase ==
    \E k \in 1..Len(items) :
        Set(updateQuantity(items, items[k].id, items[k].quantity + 1),
            Call("updateQuantity", items[k].id, items[k].quantity + 1, NoItem, "plus"))

\* page reload: the store is created again and hydrated from localStorage
Reload ==
    /\ items' = hydrate(cartStorage)
    /\ prevItems' = items
    /\ last' = Call("reload", "", 0, NoItem, "")
    /\ UNCHANGED <<cartStorage, onlyAdds, validAdds>>
    /\ UNCHANGED cartRest

\* QueryClient as the tests create it: retry: false, no query has failed
ProductsInit ==
    /\ retry = 0
    /\ failureCount = 0
    /\ queryError = <<>>

NoOrder == [id |-> "", status |-> ""]
NoInput == [productId |-> "", quantity |-> 0, shippingAddressId |-> ""]
NoResponse == [kind |-> "none", order |-> NoOrder, orders |-> <<>>]

\* useCreateOrder before mutate is called
MutationInit ==
    /\ mutation = [status |-> "idle", input |-> NoInput, response |-> NoResponse,
                   data |-> <<>>, error |-> ""]
    /\ mutateCalls = <<>>

\* no operation has gone through the links
LinkInit ==
    /\ operations = <<>>
    /\ lastLink = [op |-> "init", errors |-> <<>>, tokenBefore |-> <<>>]

\* wishlistState: default: []
WishInit ==
    /\ wishlist = <<>>
    /\ lastWish = [op |-> "init", id |-> ""]

NoSession == [accessToken |-> <<>>, refreshToken |-> <<>>, user |-> <<>>, expiry |-> 0]

\* nobody is logged in
AuthInit ==
    /\ session = NoSession
    /\ refreshRequest = "idle"
    /\ now = 0
    /\ issued = 0

\* the first render shows the empty cart, no handler has run
BatchInit ==
    /\ rendered = <<>>
    /\ dispatched = <<>>

\* the second tab was opened on the empty cart
TabInit ==
    /\ otherItems = <<>>
    /\ kept = {}

\* the (search, category) keys of the listings
Keys == {"all", "shoes"}

\* the cache of a new client is empty
PageInit ==
    /\ typePolicy = "README"
    /\ cache = [key \in Keys |-> <<>>]
    /\ prevCache = [key \in Keys |-> <<>>]
    /\ lastWrite = [op |-> "init", key |-> "", page |-> 0, incoming |-> <<>>]
    /\ inOrder = [key \in Keys |-> 0]

\* ticks of useDebounce's delay
Delay == 2

\* useDebounce('initial', delay) after its first render and effect
DebounceInit ==
    /\ value = "initial"
    /\ debouncedValue = "initial"
    /\ timers = {[value |-> "initial", left |-> Delay]}
    /\ sinceChange = 0
    /\ changes = 0
    /\ fired = 0

\* useThrottle(callback, limit) after its first render
ThrottleInit ==
    /\ inThrottle = FALSE
    /\ window = <<>>
    /\ throttled = 0
    /\ runs = <<>>
    /\ sinceRun = 0
    /\ lastThrottle = [op |-> "init", arg |-> "", ran |-> FALSE]

\* a new QueryClient: ['cart'] has no data, the backend's cart is empty
OptimisticInit ==
    /\ cartData = <<>>
    /\ serverCart = <<>>
    /\ pending = {}
    /\ refetching = FALSE
    /\ started = 0
    /\ lastOpt = [op |-> "init", id |-> 0, item |-> "", previousCart |-> <<>>]

\* useAuthStore's initial state: user: null, token: null, isAuthenticated: false
LoggedOut == [user |-> <<>>, token |-> <<>>, isAuthenticated |-> FALSE]

AuthStoreInit ==
    /\ authStore = LoggedOut
    /\ authStorage = <<>>
    /\ prevAuthStore = LoggedOut
    /\ lastAuth = "init"

\* CartProvider: useState<CartItem[]>([])
ContextInit == contextItems = <<>>

Init ==
    /\ CartInit
    /\ OrdersIdle
    /\ ProductsInit
    /\ MutationInit
    /\ LinkInit
    /\ WishInit
    /\ AuthInit
    /\ BatchInit
    /\ TabInit
    /\ PageInit
    /\ DebounceInit
    /\ ThrottleInit
    /\ OptimisticInit
    /\ AuthStoreInit
    /\ ContextInit

Next ==
    \/ AddItem
    \/ RemoveItem
    \/ UpdateQuantity
    \/ ClearCart
    \/ Decrease
    \/ Increase
    \/ Reload

Spec == Init /\ [][Next]_vars

----
\* The same store when the catalogue changes a product between two visits:
\* the AddToCartButton then passes the product's new name, price and image.

\* ids of the products whose catalogue entry changes
ChangedIds == {"1", "2"}

\* the catalogue entries after the change
ChangedOffers ==
    { [id |-> "1", name |-> "A2", price |-> 12, image |-> "/a2.jpg"],
      [id |-> "2", name |-> "B",  price |-> 17, image |-> "/b.jpg"] }

\* what the button passes: the old or the new entry, one unit or more
SnapshotInputs ==
    { CartItem(o, q) : o \in {f \in Offers : f.id \in ChangedIds} \cup ChangedOffers,
                       q \in 1..MaxArg }

\* addItem(item) with the product as the catalogue shows it now
AddCatalogueItem ==
    \E item \in SnapshotInputs :
        Set(addItem(items, item), Call("addItem", item.id, item.quantity, item, "button"))

SnapshotNext ==
    \/ AddCatalogueItem
    \/ RemoveItem
    \/ ClearCart
    \/ Reload

SpecSnapshot == Init /\ [][SnapshotNext]_vars

----
\* The order query hooks, lib/hooks/useOrders, as their tests use them:
\* useOrders(page, limit, customerId) and useOrder(id) wrap useQuery around
\* apolloClient.query and are enabled only with an access token (and, for
\* useOrder, a non-empty id).

Pages == {1, 2}
Limits == {10, 20}
CustomerIds == {"", "customer123"}
OrderIds == {"", "order1", "order2"}
Tokens == {<<>>, <<"mock-token">>}

NoHook == [name |-> "none", page |-> 0, limit |-> 0, customerId |-> "", id |-> ""]

OrdersHook(page, limit, customerId) ==
    [name |-> "useOrders", page |-> page, limit |-> limit,
     customerId |-> customerId, id |-> ""]

OrderHook(id) ==
    [name |-> "useOrder", page |-> 0, limit |-> 0, customerId |-> "", id |-> id]

\* useOrders: enabled: !!getAccessToken()
ordersEnabled_always(tok) == TRUE

ordersEnabled(tok) == tok # <<>>

\* useOrder: enabled: !!id && !!getAccessToken()
orderEnabled(tok, id) == id # "" /\ tok # <<>>

\* the query document each hook passes to its queryFn
QueryOf(name) ==
    CASE name = "useOrders" -> "GET_ORDERS_QUERY"
      [] name = "useOrder" -> "GET_ORDER_QUERY"
      [] name = "useProduct" -> "GET_PRODUCT_QUERY"
      [] OTHER -> "GET_PRODUCTS_QUERY"

\* queryFn's request: the query and the hook's arguments as its variables
Request(h) ==
    [query |-> QueryOf(h.name), page |-> h.page, limit |-> h.limit,
     customerId |-> h.customerId, id |-> h.id]

\* useQuery on render: an enabled query whose key changed starts fetching
\* through queryFn, which calls apolloClient.query with the hook's variables
UseQuery(h, enabled) ==
    /\ h # hook
    /\ hook' = h
    /\ status' = "pending"
    /\ IF enabled
       THEN /\ Len(queryCalls) < MaxCalls
            /\ fetchStatus' = "fetching"
            /\ queryCalls' = Append(queryCalls, Request(h))
       ELSE /\ fetchStatus' = "idle"
            /\ UNCHANGED queryCalls
    /\ UNCHANGED token
    /\ UNCHANGED orderRest

\* getAccessToken's value changes (login, logout) while no order hook is mounted
SetToken ==
    /\ hook = NoHook
    /\ \E t \in Tokens : token' = t /\ t # token
    /\ UNCHANGED <<hook, fetchStatus, status, queryCalls>>
    /\ UNCHANGED orderRest

\* a component renders useOrders(page, limit, customerId)
RenderUseOrders ==
    /\ hook.name \in {"none", "useOrders"}
    /\ \E page \in Pages, limit \in Limits, customerId \in CustomerIds :
          UseQuery(OrdersHook(page, limit, customerId), ordersEnabled(token))

\* a component renders useOrder(id)
RenderUseOrder ==
    /\ hook.name \in {"none", "useOrder"}
    /\ \E id \in OrderIds :
          UseQuery(OrderHook(id), orderEnabled(token, id))

\* apolloClient.query resolves
QueryResolves ==
    /\ fetchStatus = "fetching"
    /\ fetchStatus' = "idle"
    /\ status' = "success"
    /\ UNCHANGED <<token, hook, queryCalls>>
    /\ UNCHANGED orderRest

\* the component unmounts
Unmount ==
    /\ hook # NoHook
    /\ hook' = NoHook
    /\ fetchStatus' = "idle"
    /\ status' = "pending"
    /\ UNCHANGED <<token, queryCalls>>
    /\ UNCHANGED orderRest

OrdersNext ==
    \/ SetToken
    \/ RenderUseOrders
    \/ RenderUseOrder
    \/ QueryResolves
    \/ Unmount

SpecOrders == Init /\ [][OrdersNext]_vars

----
\* Single-entity queries: useProduct(productId) next to useOrder(id).

ProductIds == {"", "prod1", "prod2"}

ProductHook(productId) ==
    [name |-> "useProduct", page |-> 0, limit |-> 0, customerId |-> "", id |-> productId]

\* useProduct: enabled: !!productId
productEnabled_always(productId) == TRUE

productEnabled(productId) == productId # ""

\* a component renders useProduct(productId)
RenderUseProduct ==
    /\ hook.name \in {"none", "useProduct"}
    /\ \E productId \in ProductIds :
          UseQuery(ProductHook(productId), productEnabled(productId))

SingleNext ==
    \/ SetToken
    \/ RenderUseOrder
    \/ RenderUseProduct
    \/ QueryResolves
    \/ Unmount

SpecSingle == Init /\ [][SingleNext]_vars

----
\* useProducts(page, limit) from lib/hooks/useProducts, as its tests use it:
\* useQuery around apolloClient.query, under a QueryClient whose retry option
\* says how often a rejected query is issued again.

ProductsHook(page, limit) ==
    [name |-> "useProducts", page |-> page, limit |-> limit, customerId |-> "", id |-> ""]

\* react-query's retryer: a failed query is issued again while failures < retry
shouldRetry_always(failures, retries) == TRUE

shouldRetry(failures, retries) == failures < retries

\* new QueryClient({ defaultOptions: { queries: { retry } } }), before any hook renders
CreateQueryClient ==
    /\ hook = NoHook
    /\ \E r \in 0..MaxRetry : r # retry /\ retry' = r
    /\ UNCHANGED <<failureCount, queryError>>
    /\ UNCHANGED orderVars
    /\ UNCHANGED productRest

\* a component renders useProducts(page, limit): the query starts fetching
RenderUseProducts ==
    /\ hook.name \in {"none", "useProducts"}
    /\ Len(queryCalls) < MaxCalls
    /\ \E page \in Pages, limit \in Limits :
          /\ ProductsHook(page, limit) # hook
          /\ hook' = ProductsHook(page, limit)
          /\ queryCalls' = Append(queryCalls, Request(ProductsHook(page, limit)))
    /\ fetchStatus' = "fetching"
    /\ status' = "pending"
    /\ failureCount' = 0
    /\ queryError' = <<>>
    /\ UNCHANGED <<token, retry>>
    /\ UNCHANGED productRest

\* apolloClient.query resolves with data.products
ProductsQueryResolves ==
    /\ hook.name = "useProducts"
    /\ fetchStatus = "fetching"
    /\ fetchStatus' = "idle"
    /\ status' = "success"
    /\ failureCount' = 0
    /\ queryError' = <<>>
    /\ UNCHANGED <<token, hook, queryCalls, retry>>
    /\ UNCHANGED productRest

\* apolloClient.query rejects: issue the query again or end in the error state
ProductsQueryRejects ==
    /\ hook.name = "useProducts"
    /\ fetchStatus = "fetching"
    /\ failureCount' = failureCount + 1
    /\ IF shouldRetry(failureCount, retry)
       THEN /\ Len(queryCalls) < MaxCalls
            /\ queryCalls' = Append(queryCalls, Request(hook))
            /\ UNCHANGED <<fetchStatus, status, queryError>>
       ELSE /\ fetchStatus' = "idle"
            /\ status' = "error"
            /\ queryError' = <<"Network error">>
            /\ UNCHANGED queryCalls
    /\ UNCHANGED <<token, hook, retry>>
    /\ UNCHANGED productRest

\* the component unmounts
UnmountProducts ==
    /\ hook.name = "useProducts"
    /\ hook' = NoHook
    /\ fetchStatus' = "idle"
    /\ status' = "pending"
    /\ failureCount' = 0
    /\ queryError' = <<>>
    /\ UNCHANGED <<token, queryCalls, retry>>
    /\ UNCHANGED productRest

ProductsNext ==
    \/ CreateQueryClient
    \/ RenderUseProducts
    \/ ProductsQueryResolves
    \/ ProductsQueryRejects
    \/ UnmountProducts

SpecProducts == Init /\ [][ProductsNext]_vars

----
\* useCreateOrder from lib/hooks/useOrders, as its tests use it: useMutation
\* whose mutationFn calls apolloClient.mutate with variables { input } and
\* picks the created order out of data.createOrder.

\* the caller's order input: one item and a shipping address
OrderInputs ==
    { [productId |-> p, quantity |-> q, shippingAddressId |-> "addr1"] :
        p \in {"prod1", "prod2"}, q \in {1, 2} }

Order1 == [id |-> "order1", status |-> "pending"]
Order2 == [id |-> "order2", status |-> "pending"]

\* data.createOrder of the responses the backend gives
Responses ==
    { [kind |-> "null", order |-> NoOrder, orders |-> <<>>],
      [kind |-> "order", order |-> Order1, orders |-> <<>>],
      [kind |-> "order", order |-> Order2, orders |-> <<>>],
      [kind |-> "orders", order |-> NoOrder, orders |-> <<Order1, Order2>>],
      [kind |-> "orders", order |-> NoOrder, orders |-> <<Order2, Order1>>],
      [kind |-> "orders", order |-> NoOrder, orders |-> <<Order2>>] }

\* mutationFn after apolloClient.mutate resolved: throw on an empty
\* createOrder, else return orders[0] or order
createOrderResult_last(response) ==
    IF response.kind = "null"
    THEN [ok |-> FALSE, data |-> <<>>, error |-> "Failed to create order"]
    ELSE IF response.kind = "orders"
    THEN [ok |-> TRUE, data |-> <<response.orders[Len(response.orders)]>>, error |-> ""]
    ELSE [ok |-> TRUE, data |-> <<response.order>>, error |-> ""]

createOrderResult_lenient(response) ==
    IF response.kind = "orders"
    THEN [ok |-> TRUE, data |-> <<response.orders[1]>>, error |-> ""]
    ELSE [ok |-> TRUE, data |-> <<response.order>>, error |-> ""]

createOrderResult(response) ==
    IF response.kind = "null"
    THEN [ok |-> FALSE, data |-> <<>>, error |-> "Failed to create order"]
    ELSE IF response.kind = "orders"
    THEN [ok |-> TRUE, data |-> <<response.orders[1]>>, error |-> ""]
    ELSE [ok |-> TRUE, data |-> <<response.order>>, error |-> ""]

\* result.current.mutateAsync(input)
Mutate ==
    /\ mutation.status # "pending"
    /\ Len(mutateCalls) < MaxCalls
    /\ \E input \in OrderInputs :
          /\ mutation' = [status |-> "pending", input |-> input,
                          response |-> NoResponse, data |-> <<>>, error |-> ""]
          /\ mutateCalls' = Append(mutateCalls, [input |-> input])
    /\ UNCHANGED mutationRest

\* apolloClient.mutate resolves with data.createOrder = response
MutateResolves ==
    /\ mutation.status = "pending"
    /\ \E response \in Responses :
          LET result == createOrderResult(response)
          IN  mutation' = [mutation EXCEPT
                             !.status = IF result.ok THEN "success" ELSE "error",
                             !.response = response,
                             !.data = result.data,
                             !.error = result.error]
    /\ UNCHANGED mutateCalls
    /\ UNCHANGED mutationRest

\* apolloClient.mutate rejects
MutateRejects ==
    /\ mutation.status = "pending"
    /\ mutation' = [mutation EXCEPT !.status = "error", !.error = "Network error"]
    /\ UNCHANGED mutateCalls
    /\ UNCHANGED mutationRest

CreateOrderNext ==
    \/ Mutate
    \/ MutateResolves
    \/ MutateRejects

SpecCreateOrder == Init /\ [][CreateOrderNext]_vars

----
\* The Apollo link chain of lib/apollo/client.ts: authLink sets the
\* authorization header from getAccessToken() on every operation; the error
\* link clears the stored auth on an UNAUTHENTICATED GraphQL error.

AccessTokens == {"test-token", "mock-token"}

\* extensions.code of the errors of one GraphQL response
ErrorLists ==
    { <<>>,
      <<"UNAUTHENTICATED">>,
      <<"BAD_USER_INPUT">>,
      <<"INTERNAL_SERVER_ERROR">>,
      <<"BAD_USER_INPUT", "UNAUTHENTICATED">>,
      <<"UNAUTHENTICATED", "INTERNAL_SERVER_ERROR">> }

\* authLink: headers: { ...(token && { authorization: `Bearer ${token}` }) }
authLink_always(tok) ==
    IF tok # <<>> /\ tok[1] # ""
    THEN [authorization |-> <<"Bearer " \o tok[1]>>]
    ELSE [authorization |-> <<"Bearer null">>]

authLink(tok) ==
    IF tok # <<>> /\ tok[1] # ""
    THEN [authorization |-> <<"Bearer " \o tok[1]>>]
    ELSE [authorization |-> <<>>]

\* error link: clearAuth() when some error has extensions.code 'UNAUTHENTICATED'
errorLink_firstOnly(tok, errors) ==
    IF errors # <<>> /\ errors[1] = "UNAUTHENTICATED" THEN <<>> ELSE tok

errorLink(tok, errors) ==
    IF \E k \in 1..Len(errors) : errors[k] = "UNAUTHENTICATED" THEN <<>> ELSE tok

\* login: storeAuth puts a new access token in storage
StoreAuth ==
    /\ \E t \in AccessTokens : token # <<t>> /\ token' = <<t>>
    /\ lastLink' = [op |-> "storeAuth", errors |-> <<>>, tokenBefore |-> token]
    /\ UNCHANGED operations
    /\ UNCHANGED linkRest

\* an operation goes out: authLink reads the token and sets the headers
SendOperation ==
    /\ Len(operations) < MaxOps
    /\ operations' = Append(operations, [token |-> token, headers |-> authLink(token)])
    /\ lastLink' = [op |-> "send", errors |-> <<>>, tokenBefore |-> token]
    /\ UNCHANGED token
    /\ UNCHANGED linkRest

\* a response comes back with GraphQL errors: the error link handles them
ReceiveErrors ==
    /\ \E errors \in ErrorLists :
          /\ token' = errorLink(token, errors)
          /\ lastLink' = [op |-> "response", errors |-> errors, tokenBefore |-> token]
    /\ UNCHANGED operations
    /\ UNCHANGED linkRest

LinkNext ==
    \/ StoreAuth
    \/ SendOperation
    \/ ReceiveErrors

SpecLink == Init /\ [][LinkNext]_vars

----
\* The Recoil wishlist of store/recoilState.ts: the atom wishlistState with
\* its selectors wishlistCountState and isProductInWishlistState; product
\* cards toggle a product in and out of it, logout resets it.

WishIds == {"p1", "p2", "p3", "p4"}

\* Array.prototype.includes, scanning from index k
RECURSIVE Includes(_, _, _)
Includes(arr, x, k) ==
    IF k > Len(arr) THEN FALSE
    ELSE IF arr[k] = x THEN TRUE
    ELSE Includes(arr, x, k + 1)

\* wishlistCountState: wishlist.length
wishlistCount(w) == Len(w)

\* isProductInWishlistState(productId): wishlist.includes(productId)
isProductInWishlist_first(w, productId) == w # <<>> /\ w[1] = productId

isProductInWishlist(w, productId) == Includes(w, productId, 1)

\* onWishlistToggle(productId): save the product, or drop it when it is saved
toggleWishlist(w, productId) ==
    IF Includes(w, productId, 1)
    THEN SelectSeq(w, LAMBDA x : x # productId)
    ELSE Append(w, productId)

\* the heart button of a product card is pressed
ToggleWishlist ==
    /\ \E productId \in WishIds :
          /\ wishlist' = toggleWishlist(wishlist, productId)
          /\ lastWish' = [op |-> "toggle", id |-> productId]
    /\ UNCHANGED wishRest

\* logout: useResetRecoilState(wishlistState)
ResetWishlist ==
    /\ wishlist' = <<>>
    /\ lastWish' = [op |-> "reset", id |-> ""]
    /\ UNCHANGED wishRest

WishNext ==
    \/ ToggleWishlist
    \/ ResetWishlist

SpecWishlist == Init /\ [][WishNext]_vars

----
\* The token-refresh flow: useTokenValidator's checkAndValidate looks at the
\* stored access token; when isTokenExpired it asks the REST auth service for
\* a new one with the refresh token, stores the answer, and calls clearAuth
\* when the refresh is refused.

\* ticks an access token stays valid
TokenLifetime == 2

Users == {"u1", "u2"}

\* isTokenExpired(token)
isTokenExpired(s, t) == s.accessToken # <<>> /\ t >= s.expiry

\* clearAuth()
clearAuth(s) == NoSession

\* what checkAndValidate does with a refused refresh
onRefreshRefused_keep(s) == s

onRefreshRefused(s) == clearAuth(s)

\* login: storeAuth({ token, refreshToken, user })
Login ==
    /\ session = NoSession
    /\ refreshRequest = "idle"
    /\ issued < MaxTokens
    /\ issued' = issued + 1
    /\ \E u \in Users :
          session' = [accessToken |-> <<issued + 1>>, refreshToken |-> <<"valid">>,
                      user |-> <<u>>, expiry |-> now + TokenLifetime]
    /\ UNCHANGED <<refreshRequest, now>>
    /\ UNCHANGED authRest

\* time passes
Tick ==
    /\ now < MaxTime
    /\ now' = now + 1
    /\ UNCHANGED <<session, refreshRequest, issued>>
    /\ UNCHANGED authRest

\* the auth service stops honouring the refresh token
RefreshTokenLapses ==
    /\ session.refreshToken = <<"valid">>
    /\ session' = [session EXCEPT !.refreshToken = <<"lapsed">>]
    /\ UNCHANGED <<refreshRequest, now, issued>>
    /\ UNCHANGED authRest

\* checkAndValidate: an expired access token starts the refresh call
CheckAndValidate ==
    /\ refreshRequest = "idle"
    /\ isTokenExpired(session, now)
    /\ refreshRequest' = "pending"
    /\ UNCHANGED <<session, now, issued>>
    /\ UNCHANGED authRest

\* the auth service answers with a new access token, which is stored
RefreshSucceeds ==
    /\ refreshRequest = "pending"
    /\ session.refreshToken = <<"valid">>
    /\ issued < MaxTokens
    /\ issued' = issued + 1
    /\ session' = [session EXCEPT !.accessToken = <<issued + 1>>,
                                  !.expiry = now + TokenLifetime]
    /\ refreshRequest' = "idle"
    /\ UNCHANGED now
    /\ UNCHANGED authRest

\* the auth service refuses, or the call fails
RefreshRefused ==
    /\ refreshRequest = "pending"
    /\ session' = onRefreshRefused(session)
    /\ refreshRequest' = "idle"
    /\ UNCHANGED <<now, issued>>
    /\ UNCHANGED authRest

AuthNext ==
    \/ Login
    \/ Tick
    \/ RefreshTokenLapses
    \/ CheckAndValidate
    \/ RefreshSucceeds
    \/ RefreshRefused

SpecAuth == Init /\ [][AuthNext]_vars

\* the validator keeps running while the app is open, and a REST call ends
SpecAuthFair ==
    /\ SpecAuth
    /\ WF_vars(CheckAndValidate)
    /\ WF_vars(RefreshSucceeds \/ RefreshRefused)

----
\* Event handlers of one page. React runs the handlers of a batch before it
\* renders again, so every handler of the batch was created by the same
\* render; each store action hands a function to set, and set calls it with
\* the store's state at that moment.

\* most store calls between two renders
MaxBatch == 2

BatchIds == {"1", "2"}

\* the calls the handlers of the page can make
BatchCalls ==
    { Call("addItem", o.id, q, CartItem(o, q), "handler") :
          o \in {f \in Offers : f.id \in BatchIds}, q \in 1..MaxArg }
    \cup { Call("removeItem", id, 0, NoItem, "handler") : id \in BatchIds }
    \cup { Call("updateQuantity", id, q, NoItem, "handler") : id \in BatchIds, q \in 0..MaxArg }
    \cup { Call("clearCart", "", 0, NoItem, "handler") }

\* the function an action hands to set, applied to a state
Reducer(state, call) ==
    CASE call.op = "addItem" -> addItem(state, call.item)
      [] call.op = "removeItem" -> removeItem(state, call.id)
      [] call.op = "updateQuantity" -> updateQuantity(state, call.id, call.quantity)
      [] call.op = "clearCart" -> clearCart(state)

\* set with the items captured by the handler's render
set_closure(state, closure, call) == Reducer(closure, call)

\* set((state) => ...): the function gets the store's current state, not
\* the items captured by the handler's closure
set(state, closure, call) == Reducer(state, call)

Dispatch(call) ==
    /\ Len(dispatched) < MaxBatch
    /\ SetCart(set(items, rendered, call), call)
    /\ dispatched' = Append(dispatched, call)
    /\ UNCHANGED rendered
    /\ UNCHANGED batchRest

\* a handler calls addItem(item)
DispatchAddItem ==
    \E call \in BatchCalls : call.op = "addItem" /\ Dispatch(call)

\* a handler calls removeItem(id)
DispatchRemoveItem ==
    \E call \in BatchCalls : call.op = "removeItem" /\ Dispatch(call)

\* a handler calls updateQuantity(id, quantity)
DispatchUpdateQuantity ==
    \E call \in BatchCalls : call.op = "updateQuantity" /\ Dispatch(call)

\* a handler calls clearCart()
DispatchClearCart ==
    \E call \in BatchCalls : call.op = "clearCart" /\ Dispatch(call)

\* the batch ends: the components render with the store's items
Render ==
    /\ rendered' = items
    /\ dispatched' = <<>>
    /\ UNCHANGED cartVars
    /\ UNCHANGED batchRest

BatchNext ==
    \/ DispatchAddItem
    \/ DispatchRemoveItem
    \/ DispatchUpdateQuantity
    \/ DispatchClearCart
    \/ Render

SpecBatch == Init /\ [][BatchNext]_vars

----
\* Two tabs of one browser. Each tab runs its own copy of the store; both
\* copies persist under 'cart-storage' in the localStorage they share. A
\* tab reads the key when its store is created and writes its own items
\* after each of its set calls; the store does not listen to storage events.

TabIds == {"1", "2"}

\* what the AddToCartButton of either tab passes
TabInputs == { CartItem(o, 1) : o \in {f \in Offers : f.id \in TabIds} }

\* addItem(item) in the first tab
TabAddItem ==
    \E item \in TabInputs :
        /\ SetCart(addItem(items, item), Call("addItem", item.id, item.quantity, item, "tab"))
        /\ kept' = kept \cup {item.id}
        /\ UNCHANGED otherItems
        /\ UNCHANGED tabRest

\* removeItem(id) in the first tab
TabRemoveItem ==
    \E id \in TabIds :
        /\ SetCart(removeItem(items, id), Call("removeItem", id, 0, NoItem, "tab"))
        /\ kept' = kept \ {id}
        /\ UNCHANGED otherItems
        /\ UNCHANGED tabRest

\* the first tab is reloaded
TabReload ==
    /\ items' = hydrate(cartStorage)
    /\ prevItems' = items
    /\ last' = Call("reload", "", 0, NoItem, "tab")
    /\ UNCHANGED <<cartStorage, onlyAdds, validAdds>>
    /\ UNCHANGED tabVars
    /\ UNCHANGED tabRest

\* addItem(item) in the second tab
OtherTabAddItem ==
    \E item \in TabInputs :
        /\ InWindow(addItem(otherItems, item))
        /\ otherItems' = addItem(otherItems, item)
        /\ cartStorage' = setItem(otherItems, addItem(otherItems, item))
        /\ kept' = kept \cup {item.id}
        /\ UNCHANGED <<items, last, prevItems, onlyAdds, validAdds>>
        /\ UNCHANGED tabRest

\* removeItem(id) in the second tab
OtherTabRemoveItem ==
    \E id \in TabIds :
        /\ otherItems' = removeItem(otherItems, id)
        /\ cartStorage' = setItem(otherItems, removeItem(otherItems, id))
        /\ kept' = kept \ {id}
        /\ UNCHANGED <<items, last, prevItems, onlyAdds, validAdds>>
        /\ UNCHANGED tabRest

\* the second tab is reloaded
OtherTabReload ==
    /\ otherItems' = hydrate(cartStorage)
    /\ UNCHANGED kept
    /\ UNCHANGED cartVars
    /\ UNCHANGED tabRest

TabsNext ==
    \/ TabAddItem
    \/ TabRemoveItem
    \/ TabReload
    \/ OtherTabAddItem
    \/ OtherTabRemoveItem
    \/ OtherTabReload

SpecTabs == Init /\ [][TabsNext]_vars

----
\* The products field policy of the InMemoryCache. keyArgs keeps one cache
\* entry per (search, category); merge decides what a new result does to
\* the entry. The repository documents two policies for apolloClient: the
\* one of docs/README.md appends the pages after the first, the one of
\* docs/technologies/APOLLO_CLIENT.md always keeps the incoming result.

TypePolicies == {"README", "APOLLO_CLIENT"}

\* args.page: 0 stands for a query without page argument
PageArgs == 0..MaxPage

\* the server's result for a page of a listing, one product a page
Incoming(key, page) ==
    [products |-> <<[id |-> key, page |-> IF page = 0 THEN 1 ELSE page]>>,
     pagination |-> [page |-> IF page = 0 THEN 1 ELSE page, pages |-> MaxPage]]

\* existing?.products || []
ExistingProducts(existing) ==
    IF existing = <<>> THEN <<>> ELSE existing[1].products

\* merge(existing, incoming, { args }) of docs/README.md
merge(existing, incoming, page) ==
    IF page = 0 \/ page = 1 THEN incoming
    ELSE [incoming EXCEPT !.products = ExistingProducts(existing) \o incoming.products]

\* merge(existing, incoming) of docs/technologies/APOLLO_CLIENT.md
mergeIncoming(existing, incoming) == incoming

\* the merge of the policy the cache was created with
PolicyMerge(policy, existing, incoming, page) ==
    IF policy = "README" THEN merge(existing, incoming, page)
    ELSE mergeIncoming(existing, incoming)

\* new ApolloClient({ cache: new InMemoryCache({ typePolicies }) })
CreateClient ==
    \E policy \in TypePolicies :
        /\ typePolicy' = policy
        /\ cache' = [key \in Keys |-> <<>>]
        /\ prevCache' = cache
        /\ lastWrite' = [op |-> "create", key |-> "", page |-> 0, incoming |-> <<>>]
        /\ inOrder' = [key \in Keys |-> 0]
        /\ UNCHANGED pageRest

\* a products query answers and its result is written to the cache
WriteProducts ==
    \E key \in Keys, page \in PageArgs :
        LET incoming == Incoming(key, page)
            merged == PolicyMerge(typePolicy, cache[key], incoming, page)
        IN  /\ Len(merged.products) <= MaxCached
            /\ cache' = [cache EXCEPT ![key] = <<merged>>]
            /\ prevCache' = cache
            /\ lastWrite' = [op |-> "write", key |-> key, page |-> page,
                             incoming |-> <<incoming>>]
            /\ inOrder' = [inOrder EXCEPT ![key] =
                              IF page = 1 THEN 1
                              ELSE IF @ > 0 /\ page = @ + 1 THEN page
                              ELSE 0]
            /\ UNCHANGED typePolicy
            /\ UNCHANGED pageRest

PageNext ==
    \/ CreateClient
    \/ WriteProducts

SpecPages == Init /\ [][PageNext]_vars

----
\* lib/hooks/useDebounce: the effect, keyed on [value, delay], starts a
\* timer that sets debouncedValue to the value of its render; its cleanup
\* clears that timer before the next effect runs.

Values == {"initial", "updated", "final"}

\* an effect that never clears its timer
cleanup_none(handlers) == handlers

\* return () => clearTimeout(handler)
cleanup(handlers) == {}

\* rerender({ value: v }) with a new value: cleanup, then the effect
Rerender ==
    \E v \in Values \ {value} :
        /\ changes < MaxChanges
        /\ value' = v
        /\ timers' = cleanup(timers) \cup {[value |-> v, left |-> Delay]}
        /\ sinceChange' = 0
        /\ changes' = changes + 1
        /\ UNCHANGED <<debouncedValue, fired>>
        /\ UNCHANGED debounceRest

\* one tick of time passes; a timer that is due fires before the next tick
DebounceTick ==
    /\ \A t \in timers : t.left > 0
    /\ timers # {} \/ sinceChange < Delay
    /\ timers' = {[t EXCEPT !.left = @ - 1] : t \in timers}
    /\ sinceChange' = IF sinceChange < Delay THEN sinceChange + 1 ELSE sinceChange
    /\ UNCHANGED <<value, debouncedValue, changes, fired>>
    /\ UNCHANGED debounceRest

\* a due timer runs: setDebouncedValue(value) with the value it captured
TimerFires ==
    \E t \in timers :
        /\ t.left = 0
        /\ debouncedValue' = t.value
        /\ timers' = timers \ {t}
        /\ fired' = fired + 1
        /\ UNCHANGED <<value, sinceChange, changes>>
        /\ UNCHANGED debounceRest

DebounceNext ==
    \/ Rerender
    \/ DebounceTick
    \/ TimerFires

SpecDebounce == Init /\ [][DebounceNext]_vars

\* time passes and due timers run
SpecDebounceFair ==
    /\ SpecDebounce
    /\ WF_vars(DebounceTick)
    /\ WF_vars(TimerFires)

----
\* lib/hooks/useThrottle: the wrapped function runs callback when
\* inThrottle.current is false, sets it and starts a timer of limit that
\* resets it; a call while it is set does nothing.

\* ticks of useThrottle's limit
Limit == 2

ThrottleArgs == {"a", "b"}

\* a wrapper that never looks at the flag
passes_always(flag) == TRUE

\* if (!inThrottle.current)
passes(flag) == ~flag

\* the wrapped function is called with an argument
CallThrottled ==
    \E arg \in ThrottleArgs :
        /\ throttled < MaxThrottled
        /\ throttled' = throttled + 1
        /\ lastThrottle' = [op |-> "call", arg |-> arg, ran |-> passes(inThrottle)]
        /\ IF passes(inThrottle)
           THEN /\ runs' = Append(runs, arg)
                /\ inThrottle' = TRUE
                /\ window' = <<Limit>>
                /\ sinceRun' = 0
           ELSE UNCHANGED <<runs, inThrottle, window, sinceRun>>
        /\ UNCHANGED throttleRest

\* one tick of time passes; a timer that is due fires before the next tick
ThrottleTick ==
    /\ window # <<>> => window[1] > 0
    /\ window # <<>> \/ sinceRun < Limit
    /\ window' = IF window = <<>> THEN <<>> ELSE <<window[1] - 1>>
    /\ sinceRun' = IF sinceRun < Limit THEN sinceRun + 1 ELSE sinceRun
    /\ lastThrottle' = [op |-> "tick", arg |-> "", ran |-> FALSE]
    /\ UNCHANGED <<inThrottle, throttled, runs>>
    /\ UNCHANGED throttleRest

\* the timer runs: inThrottle.current = false
WindowCloses ==
    /\ window = <<0>>
    /\ inThrottle' = FALSE
    /\ window' = <<>>
    /\ lastThrottle' = [op |-> "timeout", arg |-> "", ran |-> FALSE]
    /\ UNCHANGED <<throttled, runs, sinceRun>>
    /\ UNCHANGED throttleRest

ThrottleNext ==
    \/ CallThrottled
    \/ ThrottleTick
    \/ WindowCloses

SpecThrottle == Init /\ [][ThrottleNext]_vars

----
\* useAddToCart: a React-Query mutation with an optimistic update of the
\* ['cart'] query data. onMutate cancels the fetches of ['cart'], keeps the
\* data as context.previousCart and appends the new item; onError writes
\* context.previousCart back; onSettled invalidates ['cart'], which fetches
\* it again.

CartProducts == {"p1", "p2"}

\* queryClient.setQueryData(key, value): undefined leaves the data alone
setQueryData(data, new) == IF new = <<>> THEN data ELSE new

\* (old) => [...(old || []), newItem]
AppendOptimistic(old, newItem) ==
    <<(IF old = <<>> THEN <<>> ELSE old[1]) \o <<newItem>>>>

\* the ['cart'] query is fetched for the first time
FetchCart ==
    /\ cartData = <<>>
    /\ ~refetching
    /\ pending = {}
    /\ refetching' = TRUE
    /\ lastOpt' = [op |-> "fetch", id |-> 0, item |-> "", previousCart |-> <<>>]
    /\ UNCHANGED <<cartData, serverCart, pending, started>>
    /\ UNCHANGED optimisticRest

\* addToCart.mutate(product): onMutate, then the POST is sent
MutateAddToCart ==
    \E newItem \in CartProducts :
        /\ started < MaxMutations
        /\ started' = started + 1
        /\ refetching' = FALSE
        /\ cartData' = setQueryData(cartData, AppendOptimistic(cartData, newItem))
        /\ pending' = pending \cup
              {[id |-> started + 1, item |-> newItem, previousCart |-> cartData]}
        /\ lastOpt' = [op |-> "mutate", id |-> started + 1, item |-> newItem,
                       previousCart |-> cartData]
        /\ UNCHANGED serverCart
        /\ UNCHANGED optimisticRest

\* the POST answers ok: onSettled
AddToCartSucceeds ==
    \E m \in pending :
        /\ serverCart' = Append(serverCart, m.item)
        /\ pending' = pending \ {m}
        /\ refetching' = TRUE
        /\ lastOpt' = [op |-> "success", id |-> m.id, item |-> m.item,
                       previousCart |-> m.previousCart]
        /\ UNCHANGED <<cartData, started>>
        /\ UNCHANGED optimisticRest

\* the POST fails: onError, then onSettled
AddToCartFails ==
    \E m \in pending :
        /\ cartData' = setQueryData(cartData, m.previousCart)
        /\ pending' = pending \ {m}
        /\ refetching' = TRUE
        /\ lastOpt' = [op |-> "error", id |-> m.id, item |-> m.item,
                       previousCart |-> m.previousCart]
        /\ UNCHANGED <<serverCart, started>>
        /\ UNCHANGED optimisticRest

\* the fetch of ['cart'] answers with the backend's cart
CartFetchResolves ==
    /\ refetching
    /\ refetching' = FALSE
    /\ cartData' = <<serverCart>>
    /\ lastOpt' = [op |-> "fetched", id |-> 0, item |-> "", previousCart |-> <<>>]
    /\ UNCHANGED <<serverCart, pending, started>>
    /\ UNCHANGED optimisticRest

OptimisticNext ==
    \/ FetchCart
    \/ MutateAddToCart
    \/ AddToCartSucceeds
    \/ AddToCartFails
    \/ CartFetchResolves

SpecOptimistic == Init /\ [][OptimisticNext]_vars

----
\* store/authStore.ts: useAuthStore with login and logout, persisted under
\* 'auth-storage'. null is <<>>, a value v is <<v>>.

AuthUsers == {"u1", "u2", "u3"}

\* login takes any string as token, the empty one too
AuthTokens == {"", "t1", "t2"}

\* a logout that forgets to drop the token
logout_keepToken(state) == [user |-> <<>>, token |-> state.token, isAuthenticated |-> FALSE]

\* login: (user, token) => set({ user, token, isAuthenticated: true })
login(state, user, tok) == [user |-> <<user>>, token |-> <<tok>>, isAuthenticated |-> TRUE]

\* logout: () => set({ user: null, token: null, isAuthenticated: false })
logout(state) == [user |-> <<>>, token |-> <<>>, isAuthenticated |-> FALSE]

\* JSON.stringify of a nullable string
StringifyNullable(v) ==
    IF v = <<>> THEN Member("", "null", "", 0) ELSE Member("", "string", v[1], 0)

\* JSON.parse of a nullable string
ParseNullable(m) == IF m.t = "null" THEN <<>> ELSE <<m.s>>

\* JSON.stringify({ state: { user, token, isAuthenticated }, version: 0 })
StringifyAuth(state) ==
    [state |-> [user |-> StringifyNullable(state.user),
                token |-> StringifyNullable(state.token),
                isAuthenticated |-> IF state.isAuthenticated THEN "true" ELSE "false"],
     version |-> 0]

\* persist's hydrate of the auth store
hydrateAuth(stored) ==
    IF stored = <<>> THEN LoggedOut
    ELSE [user |-> ParseNullable(stored[1].state.user),
          token |-> ParseNullable(stored[1].state.token),
          isAuthenticated |-> (stored[1].state.isAuthenticated = "true")]

\* set(partial) of the auth store, and persist
SetAuth(new, call) ==
    /\ authStore' = new
    /\ authStorage' = <<StringifyAuth(new)>>
    /\ prevAuthStore' = authStore
    /\ lastAuth' = call
    /\ UNCHANGED authStoreRest

\* useAuthStore.getState().login(user, token)
StoreLogin ==
    \E user \in AuthUsers, tok \in AuthTokens :
        SetAuth(login(authStore, user, tok), "login")

\* useAuthStore.getState().logout()
StoreLogout ==
    SetAuth(logout(authStore), "logout")

\* page reload: the auth store is created again and hydrated
AuthReload ==
    /\ authStore' = hydrateAuth(authStorage)
    /\ prevAuthStore' = authStore
    /\ lastAuth' = "reload"
    /\ UNCHANGED authStorage
    /\ UNCHANGED authStoreRest

AuthStoreNext ==
    \/ StoreLogin
    \/ StoreLogout
    \/ AuthReload

SpecAuthStore == Init /\ [][AuthStoreNext]_vars

----
\* CartProvider, the React-context cart: items in useState, addItem,
\* removeItem and clearCart through setItems, total computed at render.
\* It is run next to the Zustand store on the same calls.

\* prev.find((i) => i.id === item.id), <<>> for undefined
Find(prev, id) ==
    LET found == {k \in 1..Len(prev) : prev[k].id = id}
    IN  IF found = {} THEN <<>>
        ELSE <<prev[CHOOSE k \in found : \A j \in found : k <= j]>>

\* an addItem that puts a new item first
ProviderAddItem_first(prev, item) ==
    IF Find(prev, item.id) # <<>>
    THEN [k \in 1..Len(prev) |->
            IF prev[k].id = item.id
            THEN [prev[k] EXCEPT !.quantity = prev[k].quantity + item.quantity]
            ELSE prev[k]]
    ELSE <<item>> \o prev

\* addItem: setItems((prev) => ...)
ProviderAddItem(prev, item) ==
    IF Find(prev, item.id) # <<>>
    THEN [k \in 1..Len(prev) |->
            IF prev[k].id = item.id
            THEN [prev[k] EXCEPT !.quantity = prev[k].quantity + item.quantity]
            ELSE prev[k]]
    ELSE prev \o <<item>>

\* removeItem: setItems((prev) => prev.filter((i) => i.id !== id))
ProviderRemoveItem(prev, id) ==
    SelectSeq(prev, LAMBDA i : ~(i.id = id))

\* clearCart: setItems([])
ProviderClearCart(prev) == <<>>

\* items.reduce((sum, item) => sum + item.price * item.quantity, 0), from line k on
RECURSIVE ProviderReduce(_, _, _)
ProviderReduce(list, k, sum) ==
    IF k > Len(list) THEN sum
    ELSE ProviderReduce(list, k + 1, sum + list[k].price * list[k].quantity)

\* const total = items.reduce(...)
ProviderTotal(list) == ProviderReduce(list, 1, 0)

\* addItem(item) on the store and on the context
BothAddItem ==
    \E item \in ItemInputs :
        /\ SetCart(addItem(items, item),
                   Call("addItem", item.id, item.quantity, item, "both"))
        /\ contextItems' = ProviderAddItem(contextItems, item)
        /\ UNCHANGED contextRest

\* removeItem(id) on the store and on the context
BothRemoveItem ==
    \E id \in Ids :
        /\ SetCart(removeItem(items, id), Call("removeItem", id, 0, NoItem, "both"))
        /\ contextItems' = ProviderRemoveItem(contextItems, id)
        /\ UNCHANGED contextRest

\* clearCart() on the store and on the context
BothClearCart ==
    /\ SetCart(clearCart(items), Call("clearCart", "", 0, NoItem, "both"))
    /\ contextItems' = ProviderClearCart(contextItems)
    /\ UNCHANGED contextRest

ContextNext ==
    \/ BothAddItem
    \/ BothRemoveItem
    \/ BothClearCart

SpecContext == Init /\ [][ContextNext]_vars

----
\* Helpers of the properties.

\* sum of w[x] over the finite set S, in no particular order
RECURSIVE SumOver(_, _)
SumOver(w, S) ==
    IF S = {} THEN 0
    ELSE LET x == CHOOSE y \in S : TRUE
         IN  w[x] + SumOver(w, S \ {x})

AllPositive(state) == \A k \in 1..Len(state) : state[k].quantity >= 1

\* the positions of state that hold another id than id
Others(state, id) == { k \in 1..Len(state) : state[k].id # id }

----
\* C1 (as stated): every line of every reachable cart has quantity >= 1,
\* whatever integer quantities addItem, updateQuantity were called with.
C1_QuantityAlwaysPositive == AllPositive(items)

\* C1 (amended): every line of every reachable cart has quantity >= 1 as long
\* as every addItem call so far passed quantity >= 1; removeItem, clearCart
\* and updateQuantity with any integer quantity keep it so.
C1_QuantityPositiveWhenAddsValid == validAdds => AllPositive(items)

\* a line was dropped by updateQuantity(id, q <= 0) and valid lines remain
C1_Witness ==
    /\ validAdds
    /\ last.op = "updateQuantity" /\ last.quantity <= 0
    /\ HasId(prevItems, last.id)
    /\ Len(items) >= 1

\* C2: addItem(item) on a cart that holds a line with item.id keeps the number
\* of lines and adds item.quantity to that line's quantity.
C2_AddItemMergesById ==
    (last.op = "addItem" /\ HasId(prevItems, last.id)) =>
        /\ Len(items) = Len(prevItems)
        /\ \A k \in 1..Len(prevItems) :
              prevItems[k].id = last.id =>
                  /\ items[k].id = last.id
                  /\ items[k].quantity = prevItems[k].quantity + last.item.quantity

\* the same product was added again, with quantity 2, to a cart of two lines
C2_Witness ==
    /\ last.op = "addItem" /\ last.quantity = 2
    /\ HasId(prevItems, last.id)
    /\ Len(prevItems) = 2

\* C3: updateQuantity(id, q) with q <= 0 leaves the cart that removeItem(id)
\* would leave, with no line of that id; so does the minus button on a line
\* of quantity 1.
C3_NonPositiveQuantityRemoves ==
    (last.op = "updateQuantity" /\ last.quantity <= 0) =>
        /\ items = removeItem(prevItems, last.id)
        /\ ~HasId(items, last.id)
        /\ Len(items) = Cardinality(Others(prevItems, last.id))

\* the minus button was pressed on a line of quantity 1, another line remains
C3_Witness ==
    /\ last.op = "updateQuantity" /\ last.via = "minus" /\ last.quantity = 0
    /\ HasId(prevItems, last.id)
    /\ Len(items) >= 1

\* C4: getTotalPrice() is the sum of price * quantity over the lines and
\* getTotalItems() the sum of quantity over the lines.
C4_TotalsAreSums ==
    /\ getTotalPrice(items) =
          SumOver([k \in 1..Len(items) |-> items[k].price * items[k].quantity],
                  1..Len(items))
    /\ getTotalItems(items) =
          SumOver([k \in 1..Len(items) |-> items[k].quantity], 1..Len(items))

\* 2 x 10 and 3 x 15 are in the cart: the total is 65
C4_Witness ==
    /\ Len(items) = 2
    /\ items[1].price = 10 /\ items[1].quantity = 2
    /\ items[2].price = 15 /\ items[2].quantity = 3
    /\ getTotalPrice(items) = 65
    /\ getTotalItems(items) = 5

\* C5: addItem(item) with an id the cart does not hold appends item as the
\* last line and keeps the lines before it as they were.
C5_AddItemAppends ==
    (last.op = "addItem" /\ ~HasId(prevItems, last.id)) =>
        /\ Len(items) = Len(prevItems) + 1
        /\ items[Len(items)] = last.item
        /\ \A k \in 1..Len(prevItems) : items[k] = prevItems[k]

\* a third product was added to a cart of two lines
C5_Witness ==
    /\ last.op = "addItem"
    /\ ~HasId(prevItems, last.id)
    /\ Len(prevItems) = 2

\* C6: removeItem(id) leaves no line with id, keeps the other lines as they
\* were and in their order, and leaves a cart without id unchanged.
C6_RemoveItemFrame ==
    (last.op = "removeItem") =>
        LET keep == Others(prevItems, last.id)
        IN  /\ ~HasId(items, last.id)
            /\ Len(items) = Cardinality(keep)
            /\ \A k \in keep :
                  items[Cardinality({j \in keep : j <= k})] = prevItems[k]
            /\ (~HasId(prevItems, last.id) => items = prevItems)

\* the middle line of three was removed
C6_Witness ==
    /\ last.op = "removeItem"
    /\ Len(prevItems) = 3
    /\ prevItems[2].id = last.id
    /\ Len(items) = 2

\* C7: the store starts empty and clearCart() empties it: no lines,
\* getTotalItems() = 0, getTotalPrice() = 0.
C7_ClearCartEmpties ==
    (last.op \in {"init", "clearCart"}) =>
        /\ Len(items) = 0
        /\ getTotalItems(items) = 0
        /\ getTotalPrice(items) = 0

\* a cart of three lines was cleared
C7_Witness ==
    /\ last.op = "clearCart"
    /\ Len(prevItems) = 3
    /\ getTotalItems(prevItems) > 0

C9_AddItemWithinStock ==
    onlyAdds => \A k \in 1..Len(items) : items[k].quantity <= stock[items[k].id]

C19_UpdateQuantitySets ==
    (last.op = "updateQuantity" /\ last.quantity > 0) =>
        /\ Len(items) = Len(prevItems)
        /\ \A k \in 1..Len(prevItems) :
              IF prevItems[k].id = last.id
              THEN /\ items[k].quantity = last.quantity
                   /\ items[k].id = prevItems[k].id
                   /\ items[k].name = prevItems[k].name
                   /\ items[k].price = prevItems[k].price
                   /\ items[k].image = prevItems[k].image
              ELSE items[k] = prevItems[k]
        /\ (~HasId(prevItems, last.id) => items = prevItems)

\* the middle line of three went from quantity 3 to quantity 2
C19_Witness ==
    /\ last.op = "updateQuantity" /\ last.quantity = 2
    /\ Len(prevItems) = 3
    /\ prevItems[2].id = last.id /\ prevItems[2].quantity = 3
    /\ items[2].quantity = 2

\* C20: no two lines of a reachable cart have the same product id.
C20_UniqueLineIds ==
    \A j, k \in 1..Len(items) : j # k => items[j].id # items[k].id

\* a product already in second place of a full cart was added again
C20_Witness ==
    /\ last.op = "addItem"
    /\ Len(prevItems) = 3 /\ Len(items) = 3
    /\ prevItems[2].id = last.id

\* C11: useProduct('') and useOrder('') report isFetching = false and add no
\* query call; rendered with a non-empty id (and, for useOrder, with a token)
\* they issue one query whose id variable is that id.
C11_EmptyIdDisablesQuery ==
    /\ []((hook.name \in {"useProduct", "useOrder"} /\ hook.id = "")
            => fetchStatus # "fetching")
    /\ [][(hook'.name \in {"useProduct", "useOrder"} /\ hook'.id = "")
            => queryCalls' = queryCalls]_vars
    /\ [][(/\ hook' # hook
           /\ hook'.name \in {"useProduct", "useOrder"}
           /\ hook'.id # ""
           /\ (hook'.name = "useOrder" => token # <<>>))
            => /\ Len(queryCalls') = Len(queryCalls) + 1
               /\ SubSeq(queryCalls', 1, Len(queryCalls)) = queryCalls
               /\ queryCalls'[Len(queryCalls')].id = hook'.id
               /\ queryCalls'[Len(queryCalls')].query = QueryOf(hook'.name)
               /\ fetchStatus' = "fetching"]_vars

\* useProduct('') is rendered after useProduct('prod1') has issued its query
C11_Witness ==
    /\ hook = ProductHook("")
    /\ fetchStatus = "idle"
    /\ Len(queryCalls) = 1
    /\ queryCalls[1].id = "prod1"

C12_EmptyCreateOrderFails ==
    mutation.response.kind = "null" =>
        /\ mutation.status = "error"
        /\ mutation.error = "Failed to create order"
        /\ mutation.data = <<>>

\* the second mutation of a session resolved with createOrder = null
C12_Witness ==
    /\ mutation.response.kind = "null"
    /\ mutation.status = "error"
    /\ Len(mutateCalls) = 2

\* C13: the mutation is sent with variables { input } of the caller's input;
\* a response with createOrder.orders resolves to orders[0], a response with
\* createOrder.order resolves to that order.
C13_CreateOrderResult ==
    /\ (mutation.status # "idle" =>
            /\ mutateCalls # <<>>
            /\ mutateCalls[Len(mutateCalls)] = [input |-> mutation.input])
    /\ (mutation.response.kind = "orders" =>
            /\ mutation.status = "success"
            /\ mutation.data = <<Head(mutation.response.orders)>>)
    /\ (mutation.response.kind = "order" =>
            /\ mutation.status = "success"
            /\ mutation.data = <<mutation.response.order>>)

\* a response listing order2 before order1 resolved to order2
C13_Witness ==
    /\ mutation.status = "success"
    /\ mutation.response.kind = "orders"
    /\ Len(mutation.response.orders) = 2
    /\ mutation.data = <<Order2>>
    /\ mutation.input.productId = "prod2" /\ mutation.input.quantity = 2

\* C15: an operation carries an authorization header exactly when an access
\* token was stored as it was sent, and the header is then 'Bearer <token>'.
C15_AuthorizationIffToken ==
    \A k \in 1..Len(operations) :
        /\ (operations[k].headers.authorization # <<>>) <=> (operations[k].token # <<>>)
        /\ operations[k].token # <<>> =>
              operations[k].headers.authorization = <<"Bearer " \o operations[k].token[1]>>

\* operations went out with a token, without one, and with another token
C15_Witness ==
    /\ Len(operations) = 3
    /\ operations[1].headers.authorization = <<>>
    /\ operations[2].headers.authorization = <<"Bearer test-token">>
    /\ operations[3].headers.authorization = <<"Bearer mock-token">>

C21_ValidAddsKeepQuantitiesPositive ==
    /\ [](validAdds => \A k \in 1..Len(items) : items[k].quantity >= 1)
    /\ [][(validAdds' /\ AllPositive(items)) => AllPositive(items')]_vars

\* updateQuantity with a quantity below 1 removed one of two lines, all adds
\* so far having been valid
C21_Witness ==
    /\ validAdds
    /\ last.op = "updateQuantity"
    /\ last.quantity < 1
    /\ HasId(prevItems, last.id)
    /\ Len(prevItems) = 2
    /\ Len(items) = 1

\* C22: when addItem(item) merges into a line with the same id, only that
\* line's quantity changes: its name, price and image stay those of the line,
\* whatever the incoming item carries, and the other lines stay as they were.
C22_MergeKeepsSnapshot ==
    (last.op = "addItem" /\ HasId(prevItems, last.id)) =>
        /\ Len(items) = Len(prevItems)
        /\ \A k \in 1..Len(prevItems) :
              IF prevItems[k].id = last.id
              THEN /\ items[k].name = prevItems[k].name
                   /\ items[k].price = prevItems[k].price
                   /\ items[k].image = prevItems[k].image
                   /\ items[k].id = prevItems[k].id
                   /\ items[k].quantity = prevItems[k].quantity + last.quantity
              ELSE items[k] = prevItems[k]

\* an item with another name, price and image was merged into a line
C22_Witness ==
    /\ last.op = "addItem"
    /\ \E k \in 1..Len(prevItems) :
          /\ prevItems[k].id = last.id
          /\ prevItems[k].name # last.item.name
          /\ prevItems[k].price # last.item.price
          /\ prevItems[k].image # last.item.image
          /\ items[k].quantity = prevItems[k].quantity + last.quantity

\* the calls from the k-th on, applied one after the other
RECURSIVE ApplyInOrder(_, _, _)
ApplyInOrder(state, calls, k) ==
    IF k > Len(calls) THEN state
    ELSE ApplyInOrder(Reducer(state, calls[k]), calls, k + 1)

\* the quantity of the line with id, 0 without such a line
QuantityOf(state, id) ==
    IF HasId(state, id)
    THEN (CHOOSE i \in {state[k] : k \in 1..Len(state)} : i.id = id).quantity
    ELSE 0

\* C23: the store's items are those of the last render with every call
\* dispatched since applied in dispatch order; two addItem calls for one id
\* in one batch add both quantities.
C23_BatchAppliesEveryCall ==
    /\ items = ApplyInOrder(rendered, dispatched, 1)
    /\ (/\ Len(dispatched) = 2
        /\ dispatched[1].op = "addItem"
        /\ dispatched[2].op = "addItem"
        /\ dispatched[1].id = dispatched[2].id)
       => QuantityOf(items, dispatched[1].id)
             = QuantityOf(rendered, dispatched[1].id)
                 + dispatched[1].quantity + dispatched[2].quantity

\* addItem for a product not in the rendered cart was called twice in one batch
C23_Witness ==
    /\ Len(dispatched) = 2
    /\ dispatched[1].op = "addItem"
    /\ dispatched[2].op = "addItem"
    /\ dispatched[1].id = dispatched[2].id
    /\ rendered # <<>>
    /\ ~HasId(rendered, dispatched[1].id)
    /\ QuantityOf(items, dispatched[1].id) = 3

\* C24 (as stated): whatever the two tabs did, every id added in either tab
\* and not removed since is in the cart persisted under 'cart-storage'.
C24_TabsKeepEachOthersItems ==
    \A id \in kept : HasId(hydrate(cartStorage), id)

\* the products of pages 1..n of a listing, in order
RECURSIVE PagesUpTo(_, _)
PagesUpTo(key, n) ==
    IF n = 0 THEN <<>> ELSE PagesUpTo(key, n - 1) \o Incoming(key, n).products

\* C25 (as stated): a result for page 1 or without page argument replaces the
\* cached result of its key; a result for a page > 1 leaves the previously
\* cached products followed by the incoming ones, with the incoming
\* metadata; the other key is left alone; after pages 1..n in order the cache
\* holds the products of pages 1..n and the metadata of page n.
C25_ProductsMergeConcatenates ==
    /\ lastWrite.op = "write" =>
          LET key == lastWrite.key
              incoming == lastWrite.incoming[1]
          IN  /\ \A other \in Keys \ {key} : cache[other] = prevCache[other]
              /\ IF lastWrite.page = 0 \/ lastWrite.page = 1
                 THEN cache[key] = <<incoming>>
                 ELSE /\ cache[key][1].products
                            = ExistingProducts(prevCache[key]) \o incoming.products
                      /\ cache[key][1].pagination = incoming.pagination
    /\ \A key \in Keys :
          inOrder[key] > 0 =>
              /\ cache[key][1].products = PagesUpTo(key, inOrder[key])
              /\ cache[key][1].pagination.page = inOrder[key]

\* C26: the value useDebounce returns changes only to the current input and
\* only after the input stayed unchanged for the full delay; while it differs
\* from the input, the one pending timer holds the current input; and once
\* the input stops changing the returned value becomes the last input.
C26_DebounceFollowsSettledInput ==
    /\ [][debouncedValue' # debouncedValue =>
             (debouncedValue' = value /\ value' = value /\ sinceChange = Delay)]_vars
    /\ [](debouncedValue # value => timers = {[value |-> value, left |-> Delay - sinceChange]})
    /\ \A n \in 0..MaxChanges :
          (changes = n /\ debouncedValue # value)
              ~> (changes # n \/ debouncedValue = value)

\* the input changed twice within the delay and then settled: the first
\* change was never returned
C26_Witness ==
    /\ changes = 2
    /\ fired = 1
    /\ value = "final"
    /\ debouncedValue = "final"

\* C27: the first call runs callback at once; callback runs only inside a
\* call made while no window is open, with that call's argument, and two
\* runs are at least limit apart; a call while the window is open changes
\* nothing but the count of calls, and the closing of the window runs nothing;
\* a call after the window closed runs callback again.
C27_ThrottleRunsOncePerWindow ==
    /\ [](throttled = 0 => (~inThrottle /\ runs = <<>>))
    /\ [](inThrottle <=> window # <<>>)
    /\ [][runs' # runs =>
             /\ throttled' = throttled + 1
             /\ ~inThrottle
             /\ runs' = Append(runs, lastThrottle'.arg)
             /\ (runs # <<>> => sinceRun = Limit)]_vars
    /\ [][throttled' # throttled =>
             IF inThrottle
             THEN runs' = runs /\ window' = window /\ inThrottle'
             ELSE Len(runs') = Len(runs) + 1 /\ inThrottle']_vars

\* a call ran, a second call inside the window was dropped, and a third
\* call after the window closed ran again
C27_Witness ==
    /\ throttled = 3
    /\ runs = <<"a", "b">>
    /\ lastThrottle.op = "call"
    /\ lastThrottle.ran

\* C28 (as stated): after a failed add-to-cart mutation the ['cart'] data is
\* what it was right before that mutation's optimistic update, and the
\* optimistic item of every mutation still in flight is in it; after a
\* success or a failure a fetch of ['cart'] is under way.
C28_RollbackKeepsOtherMutations ==
    /\ lastOpt.op = "error" =>
          /\ cartData = lastOpt.previousCart
          /\ \A m \in pending :
                /\ cartData # <<>>
                /\ \E k \in 1..Len(cartData[1]) : cartData[1][k] = m.item
    /\ lastOpt.op \in {"success", "error"} => refetching

\* C29: isAuthenticated is true exactly when user and token are both
\* non-null, and logout leaves user = null, token = null and
\* isAuthenticated = false.
C29_AuthStoreConsistent ==
    /\ authStore.isAuthenticated <=> (authStore.user # <<>> /\ authStore.token # <<>>)
    /\ lastAuth = "logout" => authStore = LoggedOut

\* a logged-in user logged out
C29_Witness ==
    /\ lastAuth = "logout"
    /\ prevAuthStore.isAuthenticated
    /\ prevAuthStore.user = <<"u2">>
    /\ ~authStore.isAuthenticated

\* C30: after the same addItem, removeItem and clearCart calls from the empty
\* cart, CartProvider holds the items of the store, in the same order with
\* the same quantities, and its total is the store's getTotalPrice().
C30_ContextMatchesStore ==
    /\ Len(contextItems) = Len(items)
    /\ \A k \in 1..Len(items) : contextItems[k] = items[k]
    /\ ProviderTotal(contextItems) = getTotalPrice(items)

\* both carts hold three lines after a merge into the second one
C30_Witness ==
    /\ last.op = "addItem"
    /\ last.via = "both"
    /\ Len(contextItems) = 3
    /\ contextItems[2].id = last.id
    /\ contextItems[2].quantity = 3
    /\ ProviderTotal(contextItems) > 0

====
